---- MODULE Spec2Model ----
(***************************************************************************)
(* AMQP::ChannelImpl (include/channelimpl.h): the channel state machine.   *)
(* The state is the object's fields; every member function is one action.  *)
(* The report methods are defined inline in the header.  The request       *)
(* methods (pause .. close, send) are only declared there; their bodies    *)
(* follow the contract of the specification, sections 4.1 - 4.4 and 6.     *)
(* The broker side (which requests are outstanding, which were replied to) *)
(* is kept in history variables that the channel code never reads.         *)
(***************************************************************************)
EXTENDS Naturals, Sequences, FiniteSets

VARIABLES _parent, _connection, _handler, _id, _state, _transaction,
          sent, notified, observed, call, calls, limit, pending, acked, closedReported

fields == <<_parent, _connection, _handler, _id, _state, _transaction>>
history == <<pending, acked, closedReported>>
vars == <<_parent, _connection, _handler, _id, _state, _transaction,
          sent, notified, observed, call, calls, limit, pending, acked, closedReported>>

(* ---------------------------- bounds ----------------------------------- *)

\* number of member-function calls in one behaviour of Spec
MaxCalls == 2

\* number of member-function calls in one behaviour of SpecTransaction
MaxTransaction == 4

\* number of member-function calls in one behaviour of SpecTopology
MaxTopology == 3

\* number of member-function calls in one behaviour of SpecPipeline
MaxPipeline == 4

\* the channel numbers the connection hands out in the model
ChannelIds == {1}

\* size in bytes of an encoded frame accepted by the transport
FrameSize == 8

(* ---------------------------- values ----------------------------------- *)

state_connected == "state_connected"
state_closed == "state_closed"

nullptr == "nullptr"

\* the handler objects a channel can be constructed with (default: nullptr)
Handlers == {nullptr, "handler"}

\* what Connection::send can return for one frame: nothing sent, or its size
SendResults == {0, FrameSize}

\* arguments the connection passes along with a report
QueueNames == {"q1", "q2"}
Counts == {0, 1}
Messages == {"NOT_FOUND", "PRECONDITION_FAILED"}

NoArgs == <<>>

(* ---------------------------- requests --------------------------------- *)

TopologyRequests ==
    {"declareExchange", "bindExchange", "unbindExchange", "removeExchange",
     "declareQueue", "bindQueue", "unbindQueue", "purgeQueue", "removeQueue"}

TransactionRequests == {"startTransaction", "commitTransaction", "rollbackTransaction"}

Requests == {"pause", "resume", "close"} \cup TransactionRequests \cup TopologyRequests

TopologyReports ==
    {"reportExchangeDeclared", "reportExchangeBound", "reportExchangeUnbound",
     "reportExchangeDeleted", "reportQueueDeclared", "reportQueueBound",
     "reportQueueUnbound", "reportQueuePurged", "reportQueueDeleted"}

Reports == {"reportClosed", "reportPaused", "reportResumed", "reportReady",
            "reportChannelError"} \cup TopologyReports

\* the report through which the connection routes the broker's reply to a request
ReplyOf(request) ==
    CASE request = "pause" -> "reportPaused"
      [] request = "resume" -> "reportResumed"
      [] request = "close" -> "reportClosed"
      [] request \in TransactionRequests -> "reportReady"
      [] request = "declareExchange" -> "reportExchangeDeclared"
      [] request = "bindExchange" -> "reportExchangeBound"
      [] request = "unbindExchange" -> "reportExchangeUnbound"
      [] request = "removeExchange" -> "reportExchangeDeleted"
      [] request = "declareQueue" -> "reportQueueDeclared"
      [] request = "bindQueue" -> "reportQueueBound"
      [] request = "unbindQueue" -> "reportQueueUnbound"
      [] request = "purgeQueue" -> "reportQueuePurged"
      [] request = "removeQueue" -> "reportQueueDeleted"

\* a frame as the connection sees it: the channel number and the method it carries
Frame(channel, method) == [channel |-> channel, method |-> method]

\* one call of a ChannelHandler method
Notification(event, channel, args) == [event |-> event, channel |-> channel, args |-> args]

(* ---------------------------- queries ---------------------------------- *)

connectedAlways == TRUE

connected == _state = state_connected

id == _id

(* ---------------------------- construction ----------------------------- *)

ConstructUnopened ==
    /\ _parent = "channel"
    /\ _connection = "connection"
    /\ _handler \in Handlers
    /\ _id \in ChannelIds
    /\ _state = state_closed
    /\ _transaction = FALSE
    /\ sent = <<>>
    /\ notified = <<>>
    /\ observed = <<>>
    /\ call = [op |-> "ChannelImpl", args |-> NoArgs, ret |-> TRUE, matched |-> FALSE]
    /\ calls = 0
    /\ pending = <<>>
    /\ acked = <<>>
    /\ closedReported = FALSE

Construct ==
    /\ _parent = "channel"
    /\ _connection = "connection"
    /\ _handler \in Handlers
    /\ _id \in ChannelIds
    /\ _state = state_connected
    /\ _transaction = FALSE
    /\ sent = <<>>
    /\ notified = <<>>
    /\ observed = <<>>
    /\ call = [op |-> "ChannelImpl", args |-> NoArgs, ret |-> TRUE, matched |-> FALSE]
    /\ calls = 0
    /\ pending = <<>>
    /\ acked = <<>>
    /\ closedReported = FALSE

Init == Construct /\ limit = MaxCalls

(* ---------------------------- request side ----------------------------- *)

\* ChannelImpl::send: hand the frame to the connection under this channel's
\* number; the connection answers with the number of bytes it sent
send(frame, bytes) ==
    sent' = Append(sent, [frame |-> frame, bytes |-> bytes])

RequestAlwaysTrue(op) ==
    /\ calls < limit
    /\ calls' = calls + 1
    /\ UNCHANGED <<fields, limit, notified, observed, acked, closedReported>>
    /\ IF ~connected
       THEN /\ call' = [op |-> op, args |-> NoArgs, ret |-> FALSE, matched |-> FALSE]
            /\ UNCHANGED <<sent, pending>>
       ELSE \E bytes \in SendResults :
            /\ send(Frame(_id, op), bytes)
            /\ call' = [op |-> op, args |-> NoArgs, ret |-> TRUE, matched |-> FALSE]
            /\ pending' = IF bytes > 0 THEN Append(pending, op) ELSE pending

RequestReportsFailure(op) ==
    /\ calls < limit
    /\ calls' = calls + 1
    /\ UNCHANGED <<fields, limit, acked, closedReported>>
    /\ IF ~connected
       THEN /\ call' = [op |-> op, args |-> NoArgs, ret |-> FALSE, matched |-> FALSE]
            /\ notified' = IF _handler # nullptr
                           THEN Append(notified, Notification("onError", _parent, <<"NOT_CONNECTED">>))
                           ELSE notified
            /\ observed' = IF _handler # nullptr THEN Append(observed, _state) ELSE observed
            /\ UNCHANGED <<sent, pending>>
       ELSE \E bytes \in SendResults :
            /\ send(Frame(_id, op), bytes)
            /\ call' = [op |-> op, args |-> NoArgs, ret |-> bytes > 0, matched |-> FALSE]
            /\ pending' = IF bytes > 0 THEN Append(pending, op) ELSE pending
            /\ UNCHANGED <<notified, observed>>

\* the shape shared by every request method: refuse when not connected,
\* otherwise build the frame, send it and return the send status
Request(op) ==
    /\ calls < limit
    /\ calls' = calls + 1
    /\ UNCHANGED <<fields, limit, notified, observed, acked, closedReported>>
    /\ IF ~connected
       THEN /\ call' = [op |-> op, args |-> NoArgs, ret |-> FALSE, matched |-> FALSE]
            /\ UNCHANGED <<sent, pending>>
       ELSE \E bytes \in SendResults :
            /\ send(Frame(_id, op), bytes)
            /\ call' = [op |-> op, args |-> NoArgs, ret |-> bytes > 0, matched |-> FALSE]
            /\ pending' = IF bytes > 0 THEN Append(pending, op) ELSE pending

pause == Request("pause")
resume == Request("resume")
startTransaction == Request("startTransaction")
commitTransactionValidated ==
    IF connected /\ ~_transaction
    THEN /\ calls < limit
         /\ calls' = calls + 1
         /\ call' = [op |-> "commitTransaction", args |-> NoArgs, ret |-> FALSE, matched |-> FALSE]
         /\ UNCHANGED <<fields, limit, sent, notified, observed, pending, acked, closedReported>>
    ELSE Request("commitTransaction")

commitTransaction == Request("commitTransaction")
rollbackTransaction == Request("rollbackTransaction")
declareExchange == Request("declareExchange")
bindExchange == Request("bindExchange")
unbindExchange == Request("unbindExchange")
removeExchange == Request("removeExchange")
declareQueue == Request("declareQueue")
bindQueue == Request("bindQueue")
unbindQueue == Request("unbindQueue")
purgeQueue == Request("purgeQueue")
removeQueue == Request("removeQueue")
closeOptimistic ==
    /\ calls < limit
    /\ calls' = calls + 1
    /\ UNCHANGED <<_parent, _connection, _handler, _id, _transaction>>
    /\ UNCHANGED <<limit, notified, observed, acked, closedReported>>
    /\ IF ~connected
       THEN /\ call' = [op |-> "close", args |-> NoArgs, ret |-> FALSE, matched |-> FALSE]
            /\ UNCHANGED <<_state, sent, pending>>
       ELSE \E bytes \in SendResults :
            /\ send(Frame(_id, "close"), bytes)
            /\ call' = [op |-> "close", args |-> NoArgs, ret |-> bytes > 0, matched |-> FALSE]
            /\ pending' = IF bytes > 0 THEN Append(pending, "close") ELSE pending
            /\ _state' = IF bytes > 0 THEN state_closed ELSE _state

close == Request("close")

(* ---------------------------- report side ------------------------------ *)

\* the connection routes a reply to the channel: the report is the reply to
\* the oldest outstanding request, or it is not (unsolicited or out of order)
Routed(report, args) ==
    LET inOrder == pending # <<>> /\ ReplyOf(Head(pending)) = report
    IN  /\ calls < limit
        /\ calls' = calls + 1
        /\ call' = [op |-> report, args |-> args, ret |-> TRUE, matched |-> inOrder]
        /\ pending' = IF inOrder THEN Tail(pending) ELSE pending
        /\ acked' = IF inOrder THEN Append(acked, Head(pending)) ELSE acked
        /\ closedReported' = (closedReported \/ report \in {"reportClosed", "reportChannelError"})
        /\ UNCHANGED <<sent, limit>>

\* if (_handler) _handler->event(_parent, args...), called at a point of the
\* method where _state has the value now; observed records that value, which
\* is what connected() and the requests see when called from the callback
InformAt(event, args, now) ==
    /\ notified' = IF _handler # nullptr
                   THEN Append(notified, Notification(event, _parent, args))
                   ELSE notified
    /\ observed' = IF _handler # nullptr THEN Append(observed, now) ELSE observed

\* the same in a method that does not assign _state
Inform(event, args) == InformAt(event, args, _state)

reportClosedNotifiesFirst ==
    /\ InformAt("onClosed", NoArgs, _state)
    /\ _state' = state_closed
    /\ UNCHANGED <<_parent, _connection, _handler, _id, _transaction>>
    /\ Routed("reportClosed", NoArgs)

reportClosedReleasesId ==
    /\ _state' = state_closed
    /\ _id' = 0
    /\ InformAt("onClosed", NoArgs, _state')
    /\ UNCHANGED <<_parent, _connection, _handler, _transaction>>
    /\ Routed("reportClosed", NoArgs)

reportClosed ==
    /\ _state' = state_closed
    /\ InformAt("onClosed", NoArgs, _state')
    /\ UNCHANGED <<_parent, _connection, _handler, _id, _transaction>>
    /\ Routed("reportClosed", NoArgs)

reportPausedCloses ==
    /\ _state' = state_closed
    /\ InformAt("onPaused", NoArgs, _state')
    /\ UNCHANGED <<_parent, _connection, _handler, _id, _transaction>>
    /\ Routed("reportPaused", NoArgs)

reportPaused ==
    /\ Inform("onPaused", NoArgs)
    /\ UNCHANGED fields
    /\ Routed("reportPaused", NoArgs)

reportResumedUnchecked ==
    /\ notified' = Append(notified, Notification("onResumed", _parent, NoArgs))
    /\ observed' = Append(observed, _state)
    /\ UNCHANGED fields
    /\ Routed("reportResumed", NoArgs)

reportResumed ==
    /\ Inform("onResumed", NoArgs)
    /\ UNCHANGED fields
    /\ Routed("reportResumed", NoArgs)

reportReadyReopens ==
    /\ _state' = state_connected
    /\ InformAt("onReady", NoArgs, _state')
    /\ UNCHANGED <<_parent, _connection, _handler, _id, _transaction>>
    /\ Routed("reportReady", NoArgs)

reportReadyOptimistic ==
    /\ _transaction' = TRUE
    /\ Inform("onReady", NoArgs)
    /\ UNCHANGED <<_parent, _connection, _handler, _id, _state>>
    /\ Routed("reportReady", NoArgs)

reportReadyAcks ==
    /\ _transaction' =
          IF pending # <<>> /\ Head(pending) = "startTransaction" THEN TRUE
          ELSE IF pending # <<>> /\ Head(pending) \in TransactionRequests THEN FALSE
          ELSE _transaction
    /\ Inform("onReady", NoArgs)
    /\ UNCHANGED <<_parent, _connection, _handler, _id, _state>>
    /\ Routed("reportReady", NoArgs)

reportReady ==
    /\ Inform("onReady", NoArgs)
    /\ UNCHANGED fields
    /\ Routed("reportReady", NoArgs)

reportChannelErrorOnce ==
    \E message \in Messages :
        /\ IF _state = state_closed
           THEN UNCHANGED <<notified, observed>>
           ELSE InformAt("onError", <<message>>, state_closed)
        /\ _state' = state_closed
        /\ UNCHANGED <<_parent, _connection, _handler, _id, _transaction>>
        /\ Routed("reportChannelError", <<message>>)

reportChannelError ==
    \E message \in Messages :
        /\ _state' = state_closed
        /\ InformAt("onError", <<message>>, _state')
        /\ UNCHANGED <<_parent, _connection, _handler, _id, _transaction>>
        /\ Routed("reportChannelError", <<message>>)

reportExchangeDeclared ==
    /\ Inform("onExchangeDeclared", NoArgs)
    /\ UNCHANGED fields
    /\ Routed("reportExchangeDeclared", NoArgs)

reportExchangeDeletedStrict ==
    /\ IF pending # <<>> /\ ReplyOf(Head(pending)) = "reportExchangeDeleted"
       THEN /\ Inform("onExchangeDeleted", NoArgs)
            /\ UNCHANGED fields
       ELSE /\ _state' = state_closed
            /\ InformAt("onError", <<"UNEXPECTED_FRAME">>, _state')
            /\ UNCHANGED <<_parent, _connection, _handler, _id, _transaction>>
    /\ Routed("reportExchangeDeleted", NoArgs)

reportExchangeDeleted ==
    /\ Inform("onExchangeDeleted", NoArgs)
    /\ UNCHANGED fields
    /\ Routed("reportExchangeDeleted", NoArgs)

reportExchangeBoundAsUnbound ==
    /\ Inform("onExchangeUnbound", NoArgs)
    /\ UNCHANGED fields
    /\ Routed("reportExchangeBound", NoArgs)

reportExchangeBound ==
    /\ Inform("onExchangeBound", NoArgs)
    /\ UNCHANGED fields
    /\ Routed("reportExchangeBound", NoArgs)

reportExchangeUnbound ==
    /\ Inform("onExchangeUnbound", NoArgs)
    /\ UNCHANGED fields
    /\ Routed("reportExchangeUnbound", NoArgs)

reportQueueDeclaredSwapped ==
    \E queueName \in QueueNames, messageCount \in Counts, consumerCount \in Counts :
        /\ Inform("onQueueDeclared", <<queueName, consumerCount, messageCount>>)
        /\ UNCHANGED fields
        /\ Routed("reportQueueDeclared", <<queueName, messageCount, consumerCount>>)

reportQueueDeclared ==
    \E queueName \in QueueNames, messageCount \in Counts, consumerCount \in Counts :
        /\ Inform("onQueueDeclared", <<queueName, messageCount, consumerCount>>)
        /\ UNCHANGED fields
        /\ Routed("reportQueueDeclared", <<queueName, messageCount, consumerCount>>)

reportQueueBound ==
    /\ Inform("onQueueBound", NoArgs)
    /\ UNCHANGED fields
    /\ Routed("reportQueueBound", NoArgs)

reportQueueUnbound ==
    /\ Inform("onQueueUnbound", NoArgs)
    /\ UNCHANGED fields
    /\ Routed("reportQueueUnbound", NoArgs)

reportQueueDeletedCloses ==
    \E messageCount \in Counts :
        /\ _state' = state_closed
        /\ InformAt("onQueueDeleted", <<messageCount>>, _state')
        /\ UNCHANGED <<_parent, _connection, _handler, _id, _transaction>>
        /\ Routed("reportQueueDeleted", <<messageCount>>)

reportQueueDeleted ==
    \E messageCount \in Counts :
        /\ Inform("onQueueDeleted", <<messageCount>>)
        /\ UNCHANGED fields
        /\ Routed("reportQueueDeleted", <<messageCount>>)

reportQueuePurged ==
    \E messageCount \in Counts :
        /\ Inform("onQueuePurged", <<messageCount>>)
        /\ UNCHANGED fields
        /\ Routed("reportQueuePurged", <<messageCount>>)

(* ---------------------------- specification ---------------------------- *)

Next ==
    \/ pause
    \/ resume
    \/ startTransaction
    \/ commitTransaction
    \/ rollbackTransaction
    \/ declareExchange
    \/ bindExchange
    \/ unbindExchange
    \/ removeExchange
    \/ declareQueue
    \/ bindQueue
    \/ unbindQueue
    \/ purgeQueue
    \/ removeQueue
    \/ close
    \/ reportClosed
    \/ reportPaused
    \/ reportResumed
    \/ reportReady
    \/ reportChannelError
    \/ reportExchangeDeclared
    \/ reportExchangeDeleted
    \/ reportExchangeBound
    \/ reportExchangeUnbound
    \/ reportQueueDeclared
    \/ reportQueueBound
    \/ reportQueueUnbound
    \/ reportQueueDeleted
    \/ reportQueuePurged

Spec == Init /\ [][Next]_vars

\* the transaction life cycle: the transaction requests and close, the
\* acknowledgments and the reports that close the channel
InitTransaction == Construct /\ limit = MaxTransaction

NextTransaction ==
    \/ startTransaction
    \/ commitTransaction
    \/ rollbackTransaction
    \/ close
    \/ reportReady
    \/ reportClosed
    \/ reportChannelError

SpecTransaction == InitTransaction /\ [][NextTransaction]_vars

\* the topology requests and their completion reports, routed in any order
InitTopology == Construct /\ limit = MaxTopology

NextTopology ==
    \/ declareExchange
    \/ bindExchange
    \/ unbindExchange
    \/ removeExchange
    \/ declareQueue
    \/ bindQueue
    \/ unbindQueue
    \/ purgeQueue
    \/ removeQueue
    \/ reportExchangeDeclared
    \/ reportExchangeDeleted
    \/ reportExchangeBound
    \/ reportExchangeUnbound
    \/ reportQueueDeclared
    \/ reportQueueBound
    \/ reportQueueUnbound
    \/ reportQueueDeleted
    \/ reportQueuePurged

SpecTopology == InitTopology /\ [][NextTopology]_vars

\* the ordered pipeline of section 5: topology requests only, and the
\* connection routes each reply in the order the requests were issued
InitPipeline == Construct /\ limit = MaxPipeline

Expected(report) == pending # <<>> /\ ReplyOf(Head(pending)) = report

NextPipeline ==
    \/ declareExchange
    \/ bindExchange
    \/ unbindExchange
    \/ removeExchange
    \/ declareQueue
    \/ bindQueue
    \/ unbindQueue
    \/ purgeQueue
    \/ removeQueue
    \/ Expected("reportExchangeDeclared") /\ reportExchangeDeclared
    \/ Expected("reportExchangeDeleted") /\ reportExchangeDeleted
    \/ Expected("reportExchangeBound") /\ reportExchangeBound
    \/ Expected("reportExchangeUnbound") /\ reportExchangeUnbound
    \/ Expected("reportQueueDeclared") /\ reportQueueDeclared
    \/ Expected("reportQueueBound") /\ reportQueueBound
    \/ Expected("reportQueueUnbound") /\ reportQueueUnbound
    \/ Expected("reportQueueDeleted") /\ reportQueueDeleted
    \/ Expected("reportQueuePurged") /\ reportQueuePurged

SpecPipeline == InitPipeline /\ [][NextPipeline]_vars

(* ---------------------------- properties ------------------------------- *)

\* this step is a call of a request method / of a report method
RequestStep == calls' = calls + 1 /\ call'.op \in Requests
ReportStep == calls' = calls + 1 /\ call'.op \in Reports

\* C1: once reportClosed() or reportChannelError() has been invoked on the
\* channel, connected() is false in every later state; no request and no
\* report brings the channel back to Connected.
C1_ClosedIsTerminal == closedReported => ~connected

\* a request or another report was handled after the channel was reported closed
C1_Witness ==
    /\ closedReported
    /\ call.op \notin {"reportClosed", "reportChannelError"}
    /\ ~connected

\* C2: while the connectivity state is Closed, every send-type operation
\* returns false and hands no frame to the connection's send.
C2_ClosedRejectsRequests ==
    [][(_state = state_closed /\ RequestStep) => (call'.ret = FALSE /\ sent' = sent)]_vars

\* close() was refused on a channel that had been reported closed
C2_Witness ==
    /\ _state = state_closed
    /\ closedReported
    /\ call.op = "close"
    /\ call.ret = FALSE
    /\ sent = <<>>

\* C3: the connectivity state changes only inside reportClosed() and
\* reportChannelError(); no request changes it, whether its send succeeds
\* or the transport send fails.
C3_OnlyReportsClose ==
    [][(_state' # _state) =>
         (calls' = calls + 1 /\ call'.op \in {"reportClosed", "reportChannelError"})]_vars

\* a request whose transport send failed left the channel connected
C3_Witness ==
    /\ call.op \in Requests
    /\ sent # <<>>
    /\ sent[Len(sent)].bytes = 0
    /\ call.ret = FALSE
    /\ connected

\* the ChannelHandler method that belongs to a report (section 6)
HandlerEventOf(report) ==
    CASE report = "reportClosed" -> "onClosed"
      [] report = "reportPaused" -> "onPaused"
      [] report = "reportResumed" -> "onResumed"
      [] report = "reportReady" -> "onReady"
      [] report = "reportChannelError" -> "onError"
      [] report = "reportExchangeDeclared" -> "onExchangeDeclared"
      [] report = "reportExchangeDeleted" -> "onExchangeDeleted"
      [] report = "reportExchangeBound" -> "onExchangeBound"
      [] report = "reportExchangeUnbound" -> "onExchangeUnbound"
      [] report = "reportQueueDeclared" -> "onQueueDeclared"
      [] report = "reportQueueBound" -> "onQueueBound"
      [] report = "reportQueueUnbound" -> "onQueueUnbound"
      [] report = "reportQueueDeleted" -> "onQueueDeleted"
      [] report = "reportQueuePurged" -> "onQueuePurged"

\* the completion callback that belongs to a topology request (section 4.4, 4.5)
CompletionOf(request) ==
    CASE request = "declareExchange" -> "onExchangeDeclared"
      [] request = "bindExchange" -> "onExchangeBound"
      [] request = "unbindExchange" -> "onExchangeUnbound"
      [] request = "removeExchange" -> "onExchangeDeleted"
      [] request = "declareQueue" -> "onQueueDeclared"
      [] request = "bindQueue" -> "onQueueBound"
      [] request = "unbindQueue" -> "onQueueUnbound"
      [] request = "purgeQueue" -> "onQueuePurged"
      [] request = "removeQueue" -> "onQueueDeleted"

\* the acknowledgment of a start-transaction request has been reported
StartAcked == \E i \in 1..Len(acked) : acked[i] = "startTransaction"

\* the transaction requests acknowledged so far, oldest first
TransactionAcks == SelectSeq(acked, LAMBDA r : r \in TransactionRequests)

\* C4: the transaction flag is never set optimistically: a call of
\* startTransaction(), whatever it returns, leaves the flag false, and in
\* every state where the flag is true the acknowledgment of an earlier
\* start-transaction request has been reported to the channel.
C4_NoOptimisticTransaction ==
    /\ [](_transaction => StartAcked)
    /\ [][(calls' = calls + 1 /\ call'.op = "startTransaction") => ~_transaction']_vars

\* startTransaction() has just handed its frame to the connection
C4_Witness ==
    /\ call.op = "startTransaction"
    /\ call.ret = TRUE
    /\ pending # <<>>
    /\ ~_transaction

\* C5: the transaction flag follows the acknowledgments: once the
\* acknowledgment of startTransaction() is reported the flag is true, and
\* once a later commitTransaction() or rollbackTransaction() is
\* acknowledged the flag is false again.
C5_FlagFollowsAcks ==
    (connected /\ TransactionAcks # <<>>) =>
        (_transaction <=> TransactionAcks[Len(TransactionAcks)] = "startTransaction")

C7_OrderBasedCorrelation ==
    _handler # nullptr =>
        /\ Len(notified) = Len(acked)
        /\ \A k \in 1..Len(acked) :
              /\ notified[k].event = CompletionOf(acked[k])
              /\ notified[k].channel = _parent

\* two different topology requests were issued before the first reply came,
\* and both replies have been dispatched
C7_Witness ==
    /\ _handler # nullptr
    /\ Len(sent) >= 2
    /\ Len(acked) = 2
    /\ acked[1] # acked[2]
    /\ sent[2].frame.method = acked[2]
    /\ Len(notified) = 2
    /\ calls = 4

\* this state follows a topology report that is not the reply to the oldest
\* outstanding request
Misrouted == call.op \in TopologyReports /\ ~call.matched

C9_NoHandlerNoNotification ==
    [][(_handler = nullptr /\ ReportStep) =>
         /\ notified' = <<>>
         /\ _handler' = nullptr
         /\ IF call'.op \in {"reportClosed", "reportChannelError"}
            THEN _state' = state_closed
            ELSE _state' = _state]_vars

\* a channel without handler was closed by an error report after another call
C9_Witness ==
    /\ _handler = nullptr
    /\ calls = 2
    /\ call.op = "reportChannelError"
    /\ _state = state_closed
    /\ notified = <<>>

\* C10: with a handler attached each report call produces exactly one
\* notification: the event that belongs to the report, for this channel,
\* with exactly the arguments given to the report.
C10_ReportNotifiesVerbatim ==
    [][(_handler # nullptr /\ ReportStep) =>
         notified' = Append(notified,
             Notification(HandlerEventOf(call'.op), _parent, call'.args))]_vars

\* onQueueDeclared was delivered with a message count that differs from
\* the consumer count
C10_Witness ==
    /\ _handler # nullptr
    /\ call.op = "reportQueueDeclared"
    /\ call.args = <<"q1", 0, 1>>
    /\ notified # <<>>
    /\ notified[Len(notified)] = Notification("onQueueDeclared", _parent, <<"q1", 0, 1>>)

\* the frame handed to the connection by the call that led to this state
LastSent == sent[Len(sent)]

\* C11: commitTransaction() and rollbackTransaction() are not validated
\* against the transaction flag: on a Connected channel whose flag is
\* false they still hand their frame to the connection and return the
\* send status.
C11_CommitNotValidated ==
    [][(_state = state_connected /\ ~_transaction /\ RequestStep
            /\ call'.op \in {"commitTransaction", "rollbackTransaction"}) =>
         /\ Len(sent') = Len(sent) + 1
         /\ sent'[Len(sent')].frame = Frame(_id, call'.op)
         /\ call'.ret = (sent'[Len(sent')].bytes > 0)]_vars

\* commitTransaction() was sent while the start request was still unacknowledged
C11_Witness ==
    /\ call.op = "commitTransaction"
    /\ call.ret = TRUE
    /\ ~_transaction
    /\ pending = <<"startTransaction", "commitTransaction">>
    /\ LastSent.frame.method = "commitTransaction"

\* C12: the pure-notification reports change no channel state:
\* reportPaused, reportResumed, reportReady and every topology completion
\* report leave the connectivity state, the transaction flag, the channel
\* id and the handler association as they were.
C12_NotificationsChangeNoState ==
    [][(ReportStep /\ call'.op \notin {"reportClosed", "reportChannelError"}) =>
         /\ _state' = _state
         /\ _transaction' = _transaction
         /\ _id' = _id
         /\ _handler' = _handler
         /\ _parent' = _parent
         /\ _connection' = _connection]_vars

\* a topology report was handled on a channel that is still connected and
\* has a request outstanding
C12_Witness ==
    /\ call.op \in TopologyReports
    /\ calls = 2
    /\ pending # <<>>
    /\ connected
    /\ ~_transaction

\* C13: the state change precedes the notification: whenever the handler's
\* onClosed or onError callback runs, the connectivity state it observes is
\* already Closed, so connected() and every request called from inside the
\* callback see a channel that is not connected.
C13_ClosedBeforeNotified ==
    /\ Len(observed) = Len(notified)
    /\ \A k \in 1..Len(notified) :
          notified[k].event \in {"onClosed", "onError"} => observed[k] = state_closed

\* onClosed was the first callback of a channel that was connected until then
C13_Witness ==
    /\ calls = 1
    /\ call.op = "reportClosed"
    /\ Len(notified) = 1
    /\ notified[1].event = "onClosed"
    /\ observed[1] = state_closed

\* this step is a request that handed one frame to the connection
FrameHanded == Len(sent') = Len(sent) + 1 /\ sent'[Len(sent')].frame = Frame(_id, call'.op)

\* C14: every send-type operation returns true exactly when the channel
\* is Connected at the call and the connection's send reports a positive
\* number of bytes for the frame; a send result of 0 yields false.
C14_ReturnsSendStatus ==
    [][RequestStep =>
         call'.ret = (/\ _state = state_connected
                      /\ FrameHanded
                      /\ sent'[Len(sent')].bytes > 0)]_vars

\* one request failed at the transport and the next one succeeded
C14_Witness ==
    /\ Len(sent) = 2
    /\ sent[1].bytes = 0
    /\ sent[2].bytes > 0
    /\ call.op \in Requests
    /\ call.ret = TRUE
    /\ Len(pending) = 1

\* C15: request operations never notify the handler, whether they succeed,
\* fail the Connected precondition or fail at the transport; every handler
\* notification occurs inside a report method.
C15_RequestsNeverNotify ==
    [][/\ RequestStep => notified' = notified
       /\ notified' # notified => ReportStep]_vars

\* a request was refused on a closed channel whose handler had been
\* notified of the closure only
C15_Witness ==
    /\ _handler # nullptr
    /\ _state = state_closed
    /\ call.op \in Requests
    /\ call.ret = FALSE
    /\ Len(notified) = 1

\* a close() has been sent and neither reportClosed() nor
\* reportChannelError() has arrived since
ClosePending ==
    /\ \E i \in 1..Len(pending) : pending[i] = "close"
    /\ ~closedReported

\* C16: between a close() that returns true and the arrival of
\* reportClosed() the channel is still Connected: connected() is true and
\* further requests, a second close() included, hand another frame to the
\* connection and return the send status.
C16_ConnectedUntilClosedReported ==
    /\ [](ClosePending => connected)
    /\ [][(ClosePending /\ RequestStep) =>
             (FrameHanded /\ call'.ret = (sent'[Len(sent')].bytes > 0))]_vars

\* a second close() was sent while the first one was unanswered
C16_Witness ==
    /\ pending = <<"close", "close">>
    /\ Len(sent) = 2
    /\ call.op = "close"
    /\ call.ret = TRUE
    /\ connected

\* C17: reports are not suppressed on a Closed channel: a report handled
\* while the state is Closed still gives the attached handler its
\* notification, so onClosed and onError can fire again and completion
\* callbacks can fire after the closure.
C17_ReportsNotSuppressed ==
    /\ []((_state = state_closed /\ calls < limit) =>
            (ENABLED reportClosed /\ ENABLED reportChannelError
                /\ ENABLED reportQueueDeclared))
    /\ [][(_state = state_closed /\ _handler # nullptr /\ ReportStep) =>
             /\ Len(notified') = Len(notified) + 1
             /\ notified'[Len(notified')].event = HandlerEventOf(call'.op)]_vars

\* the handler was told of a closure or an error twice, or of a completion
\* after the closure
C17_Witness ==
    /\ Len(notified) = 2
    /\ notified[1].event \in {"onClosed", "onError"}
    /\ notified[2].event \in {"onClosed", "onError", "onQueueDeclared"}
    /\ observed[2] = state_closed

\* C18: a newly constructed channel is Connected with the transaction flag
\* false, and a request made before any report has arrived, reportReady()
\* included, is accepted: it hands its frame to the connection and returns
\* the send status.
C18_ConnectedFromConstruction ==
    /\ [](calls = 0 => (connected /\ ~_transaction))
    /\ [][(calls = 0 /\ RequestStep) =>
             (FrameHanded /\ call'.ret = (sent'[Len(sent')].bytes > 0))]_vars

\* the first call on the channel was a request and it was sent
C18_Witness ==
    /\ calls = 1
    /\ call.op \in Requests
    /\ call.ret = TRUE
    /\ acked = <<>>
    /\ notified = <<>>
    /\ Len(sent) = 1

\* C19: the channel number is fixed at construction: id() returns the same
\* value in every state, no request and no report changes it, and every
\* frame handed to the connection carries that channel number.
C19_IdIsFixed ==
    /\ [][id' = id]_vars
    /\ [](\A k \in 1..Len(sent) : sent[k].frame.channel = id)

\* a frame was sent, the channel was reported closed, and id() is unchanged
C19_Witness ==
    /\ calls = 2
    /\ Len(sent) = 1
    /\ sent[1].frame.channel = id
    /\ call.op = "reportClosed"
    /\ id \in ChannelIds
====
